---- MODULE Spec2Model ----
(***************************************************************************)
(* Model of the triangular surface grid of bempp/api/grid/grid.py.         *)
(*                                                                         *)
(* The state is one Grid object under construction: the arguments handed   *)
(* to Grid.__init__, the private fields the constructor fills one stage    *)
(* after the other, and the position of the constructor (pc).              *)
(*                                                                         *)
(* Arrays keep the layout and the 0-based indices of the source: a numpy   *)
(* array of shape (r, n) is a function a with a[i][j], i in 0..r-1 and     *)
(* j in 0..n-1, so elements[k][e] is elements[k, e].  Python lists that    *)
(* grow by append are TLA+ sequences until they are turned into arrays.    *)
(***************************************************************************)
EXTENDS Integers, Sequences, FiniteSets, TLC

VARIABLES
    pc,                   \* position of Grid.__init__
    error,                \* the exception that ended construction, or NoError
    arg_vertices,         \* argument vertices (3 x V)
    arg_elements,         \* argument elements (3 x M)
    arg_domain_indices,   \* argument domain_indices (M entries) or None
    vertices,             \* self._vertices
    elements,             \* self._elements
    domain_indices,       \* self._domain_indices
    edges,                \* self._edges (2 x E)
    element_edges,        \* self._element_edges (3 x M)
    edge_adjacency,       \* self._edge_adjacency (6 x n)
    vertex_adjacency,     \* self._vertex_adjacency (4 x n)
    element_neighbors,    \* self._element_neighbors (list of sets)
    jacobians,            \* self._jacobians (M x 3 x 2)
    normal_directions,    \* normal_directions of _compute_geometric_quantities
    jac_transpose_jac,    \* jac_transpose_jac of _compute_geometric_quantities
    vertex_on_boundary,   \* self._vertex_on_boundary
    edge_on_boundary,     \* self._edge_on_boundary
    edge_neighbors,       \* self._edge_neighbors (list of lists)
    device_interfaces,    \* self._device_interfaces (dict: key -> interface)
    interfaces_created,   \* number of DeviceGridInterface objects created
    calls,                \* the push_to_device call of every thread
    refined,              \* the caller's value of grid.refine(), or None
    result,               \* the caller's value of the last query, or None
    iterators             \* the generators got from entity_iterator

inputVars == <<arg_vertices, arg_elements, arg_domain_indices>>
dataVars == <<vertices, elements, domain_indices>>
edgeVars == <<edges, element_edges>>
adjVars == <<edge_adjacency, vertex_adjacency, element_neighbors>>
geomVars == <<jacobians, normal_directions, jac_transpose_jac>>
bndVars == <<vertex_on_boundary, edge_on_boundary>>
gridVars == <<pc, error, inputVars, dataVars, edgeVars, adjVars, geomVars,
             bndVars, edge_neighbors>>
deviceVars == <<device_interfaces, interfaces_created, calls>>
callerVars == <<refined, result, iterators>>
vars == <<gridVars, deviceVars, callerVars>>

----------------------------------------------------------------------------
(* Bounds of the checked inputs.                                           *)

\* number of vertices of the freely chosen element arrays
NumVertices == 3

\* largest number of elements of the freely chosen element arrays
MaxElems == 1

----------------------------------------------------------------------------
(* Program constants and small helpers.                                    *)

EDGES_ID == 2

VERTICES_ID == 1

\* EDGE_LOCAL with the local edges listed in cyclic order
EDGE_LOCAL_Cyclic ==
    [l \in 0..2 |-> CASE l = 0 -> <<0, 1>>
                      [] l = 1 -> <<1, 2>>
                      [] l = 2 -> <<2, 0>>]

EDGE_LOCAL ==
    [l \in 0..2 |-> CASE l = 0 -> <<0, 1>>
                      [] l = 1 -> <<2, 0>>
                      [] l = 2 -> <<1, 2>>]

\* self._x = None
None == << >>

NoError == "none"

\* a.shape[1] of a two-dimensional array with at least one row
Shape1(a) == Cardinality(DOMAIN a[0])

\* len(a) of a one-dimensional array
Len0(a) == Cardinality(DOMAIN a)

\* column j of a two-dimensional array: a[:, j]
Column(a, j) == [i \in DOMAIN a |-> a[i][j]]

RECURSIVE SumOver(_, _, _)
\* sum of f[i] for i in lo..hi
SumOver(f, lo, hi) == IF lo > hi THEN 0 ELSE f[lo] + SumOver(f, lo + 1, hi)

----------------------------------------------------------------------------
(* Input normalisation.                                                    *)

\* align_array(arr, "uint32", "F") on a one-dimensional array: the entries
\* used here are non-negative and far below 2^32, so the conversion to
\* uint32 keeps every value (and no later sum comes near 2^32 either)
AlignUInt32Vector(arr) == [i \in DOMAIN arr |-> arr[i]]

\* align_array(arr, "uint32", "F") on a two-dimensional array
AlignUInt32Array(arr) == [i \in DOMAIN arr |-> AlignUInt32Vector(arr[i])]

\* align_array(arr, "float64", "F"): the coordinates used here are integers
\* of small magnitude, which float64 represents exactly
AlignFloat64Array(arr) == arr

NormalizeAndAssignInput ==
    /\ pc = "start"
    /\ LET dom == IF arg_domain_indices = None
                  THEN [e \in 0..(Shape1(arg_elements) - 1) |-> 0]
                  ELSE arg_domain_indices
       IN /\ vertices' = AlignFloat64Array(arg_vertices)
          /\ elements' = AlignUInt32Array(arg_elements)
          /\ domain_indices' = AlignUInt32Vector(dom)
    /\ pc' = "normalized"
    /\ UNCHANGED <<error, inputVars, edgeVars, adjVars, geomVars, bndVars,
                   edge_neighbors>>
    /\ UNCHANGED <<deviceVars, callerVars>>

----------------------------------------------------------------------------
(* Edge enumeration.                                                       *)

\* SortValues without the swap
SortValuesNoSwap(val1, val2) == <<val1, val2>>

SortValues(val1, val2) ==
    IF val1 > val2 THEN <<val2, val1>> ELSE <<val1, val2>>

VerticesFromEdgeIndex(element, local_index) ==
    SortValues(element[EDGE_LOCAL[local_index][1]],
               element[EDGE_LOCAL[local_index][2]])

\* the locals of _enumerate_edges before its loop
EnumerateEdgesStart(elems) ==
    [edges |-> << >>,
     edge_tuple_to_index |-> << >>,
     element_edges |-> [l \in 0..2 |-> [e \in 0..(Shape1(elems) - 1) |-> 0]],
     number_of_edges |-> 0]

\* EnumerateEdgesBody with the local edges of an element visited from the
\* last to the first
EnumerateEdgesBodyReversed(elems, st, elem_index, local_index) ==
    LET not_found == -1
        local == 2 - local_index
        edge_tuple == VerticesFromEdgeIndex(Column(elems, elem_index), local)
        found == IF edge_tuple \in DOMAIN st.edge_tuple_to_index
                 THEN st.edge_tuple_to_index[edge_tuple]
                 ELSE not_found
        edge_index == IF found = not_found THEN st.number_of_edges ELSE found
        st1 == IF found = not_found
               THEN [st EXCEPT
                       !.edge_tuple_to_index =
                           [t \in DOMAIN st.edge_tuple_to_index \cup {edge_tuple} |->
                               IF t = edge_tuple THEN edge_index
                               ELSE st.edge_tuple_to_index[t]],
                       !.edges = Append(st.edges, edge_tuple),
                       !.number_of_edges = st.number_of_edges + 1]
               ELSE st
    IN [st1 EXCEPT !.element_edges[local][elem_index] = edge_index]

\* one pass through the body of the inner loop of _enumerate_edges
EnumerateEdgesBody(elems, st, elem_index, local_index) ==
    LET not_found == -1
        edge_tuple == VerticesFromEdgeIndex(Column(elems, elem_index), local_index)
        found == IF edge_tuple \in DOMAIN st.edge_tuple_to_index
                 THEN st.edge_tuple_to_index[edge_tuple]
                 ELSE not_found
        edge_index == IF found = not_found THEN st.number_of_edges ELSE found
        st1 == IF found = not_found
               THEN [st EXCEPT
                       !.edge_tuple_to_index =
                           [t \in DOMAIN st.edge_tuple_to_index \cup {edge_tuple} |->
                               IF t = edge_tuple THEN edge_index
                               ELSE st.edge_tuple_to_index[t]],
                       !.edges = Append(st.edges, edge_tuple),
                       !.number_of_edges = st.number_of_edges + 1]
               ELSE st
    IN [st1 EXCEPT !.element_edges[local_index][elem_index] = edge_index]

RECURSIVE EnumerateEdgesLoop(_, _, _)
\* the two nested loops of _enumerate_edges, from iteration pos onwards;
\* iteration pos handles local edge pos % 3 of element pos \div 3 (the
\* second test never holds: after pos iterations there are at most pos
\* edges; it makes TLC compute st before it goes on)
EnumerateEdgesLoop(elems, st, pos) ==
    IF pos >= 3 * Shape1(elems) \/ st.number_of_edges > pos THEN st
    ELSE EnumerateEdgesLoop(elems,
                            EnumerateEdgesBody(elems, st, pos \div 3, pos % 3),
                            pos + 1)

\* np.array(edges, dtype="int32").T
EdgeListToArray(edgeList) ==
    [r \in 0..1 |-> [k \in 0..(Len(edgeList) - 1) |-> edgeList[k + 1][r + 1]]]

EnumerateEdges ==
    /\ pc = "normalized"
    /\ LET st == EnumerateEdgesLoop(elements, EnumerateEdgesStart(elements), 0)
       IN /\ edges' = EdgeListToArray(st.edges)
          /\ element_edges' = st.element_edges
    /\ pc' = "edges_enumerated"
    /\ UNCHANGED <<error, inputVars, dataVars, adjVars, geomVars, bndVars,
                   edge_neighbors>>
    /\ UNCHANGED <<deviceVars, callerVars>>

----------------------------------------------------------------------------
(* Outcome of a function that may raise.                                   *)

Returned(v) == [raised |-> FALSE, value |-> v]

Raised == [raised |-> TRUE, value |-> << >>]

----------------------------------------------------------------------------
(* Element adjacency.                                                      *)

\* csr_matrix if it accepted the row index equal to the number of rows
VertexToElementRaisesAbove(verts, elems) ==
    \E k \in 0..2 : \E e \in 0..(Shape1(elems) - 1) :
        elems[k][e] > Shape1(verts)

\* csr_matrix rejects a row index outside its shape with a ValueError
VertexToElementRaises(verts, elems) ==
    \E k \in 0..2 : \E e \in 0..(Shape1(elems) - 1) :
        elems[k][e] >= Shape1(verts)

\* entry (v, e) is the number of corners of element e that are vertex v:
\* csr_matrix adds up the entries given for the same position
GetVertexToElementMatrix(verts, elems) ==
    [v \in 0..(Shape1(verts) - 1) |->
        [e \in 0..(Shape1(elems) - 1) |->
            Cardinality({k \in 0..2 : elems[k][e] = v})]]

\* vertex_to_element.T.dot(vertex_to_element); an entry 0 stands for a
\* position the sparse product does not store
ElementToElementProduct(vertex_to_element) ==
    LET nV == Len0(vertex_to_element)
        nM == Shape1(vertex_to_element)
    IN [i \in 0..(nM - 1) |->
          [j \in 0..(nM - 1) |->
              SumOver([v \in 0..(nV - 1) |->
                          vertex_to_element[v][i] * vertex_to_element[v][j]],
                      0, nV - 1)]]

GetElementToElementMatrix(verts, elems) ==
    ElementToElementProduct(GetVertexToElementMatrix(verts, elems))

\* StoredPositions restricted to the part of the matrix above the diagonal
StoredPositionsUpper(matrix) ==
    LET n == Len0(matrix)
    IN SelectSeq([p \in 1..(n * n) |-> <<(p - 1) \div n, (p - 1) % n>>],
                 LAMBDA rc : matrix[rc[1]][rc[2]] # 0 /\ rc[1] <= rc[2])

\* the stored positions of the matrix in the order of its coo form: row
\* after row; inside a row the order is that of the sparse product, taken
\* here as ascending
StoredPositions(matrix) ==
    LET n == Len0(matrix)
    IN SelectSeq([p \in 1..(n * n) |-> <<(p - 1) \div n, (p - 1) % n>>],
                 LAMBDA rc : matrix[rc[1]][rc[2]] # 0)

GetElementToElementVertexCount(element_to_element_matrix) ==
    LET coo == StoredPositions(element_to_element_matrix)
    IN [elements1 |-> [p \in 0..(Len(coo) - 1) |-> coo[p + 1][1]],
        elements2 |-> [p \in 0..(Len(coo) - 1) |-> coo[p + 1][2]],
        nvertices |-> [p \in 0..(Len(coo) - 1) |->
                          element_to_element_matrix[coo[p + 1][1]][coo[p + 1][2]]]]

\* np.argwhere(nvertices == filter_type).flatten(), as a list
FilteredIndices(nvertices, filter_type) ==
    SelectSeq([p \in 1..Len0(nvertices) |-> p - 1],
              LAMBDA i : nvertices[i] = filter_type)

\* ElementFilter keeping every pair with at least filter_type common vertices
ElementFilterAtLeast(elements1, elements2, nvertices, filter_type) ==
    LET filtered_indices == SelectSeq([p \in 1..Len0(nvertices) |-> p - 1],
                                      LAMBDA i : nvertices[i] >= filter_type)
        n == Len(filtered_indices)
    IN <<[p \in 0..(n - 1) |-> elements1[filtered_indices[p + 1]]],
         [p \in 0..(n - 1) |-> elements2[filtered_indices[p + 1]]]>>

ElementFilter(elements1, elements2, nvertices, filter_type) ==
    LET filtered_indices == FilteredIndices(nvertices, filter_type)
        n == Len(filtered_indices)
    IN <<[p \in 0..(n - 1) |-> elements1[filtered_indices[p + 1]]],
         [p \in 0..(n - 1) |-> elements2[filtered_indices[p + 1]]]>>

RECURSIVE CompareArrayToValueFrom(_, _, _)
CompareArrayToValueFrom(array, val, index) ==
    IF index >= Len0(array) THEN -1
    ELSE IF array[index] = val THEN index
    ELSE CompareArrayToValueFrom(array, val, index + 1)

CompareArrayToValue(array, val) == CompareArrayToValueFrom(array, val, 0)

RECURSIVE FindFirstCommonLoop(_, _, _, _)
\* the loop of _find_first_common_array_index_pair_from_position from
\* iteration index1 onwards; running off the end raises ValueError
FindFirstCommonLoop(array1, array2, start, index1) ==
    IF index1 >= Len0(array1) - start THEN Raised
    ELSE LET full_index1 == index1 + start
             index2 == CompareArrayToValue(array2, array1[full_index1])
         IN IF index2 # -1 THEN Returned(<<full_index1, index2>>)
            ELSE FindFirstCommonLoop(array1, array2, start, index1 + 1)

\* the search if it returned the pair (start, 0) where it finds no match
FindFirstCommonOrDefault(array1, array2, start) ==
    LET found == FindFirstCommonLoop(array1, array2, start, 0)
    IN IF found.raised THEN Returned(<<start, 0>>) ELSE found

FindFirstCommonArrayIndexPairFromPosition(array1, array2, start) ==
    FindFirstCommonLoop(array1, array2, start, 0)

\* the second search started at the first match instead of behind it
SecondSearchOffsetAtMatch(first_index1) == first_index1

\* the start position of the second search
SecondSearchOffset(first_index1) == first_index1 + 1

\* index_pairs[:, 0] is the first pair (i, j), index_pairs[:, 1] the second
FindTwoCommonArrayIndexPairs(array1, array2) ==
    LET first == FindFirstCommonArrayIndexPairFromPosition(array1, array2, 0)
    IN IF first.raised THEN Raised
       ELSE LET offset == SecondSearchOffset(first.value[1])
                second == FindFirstCommonArrayIndexPairFromPosition(
                              array1, array2, offset)
            IN IF second.raised THEN Raised
               ELSE Returned([r \in 0..1 |->
                                [c \in 0..1 |->
                                    IF c = 0 THEN first.value[r + 1]
                                    ELSE second.value[r + 1]]])

GetSharedVertexInformationForTwoElements(elems, elem0, elem1) ==
    FindFirstCommonArrayIndexPairFromPosition(
        Column(elems, elem0), Column(elems, elem1), 0)

GetSharedEdgeInformationForTwoElements(elems, elem0, elem1) ==
    FindTwoCommonArrayIndexPairs(Column(elems, elem0), Column(elems, elem1))

FindVertexAdjacency(elems, test_indices, trial_indices) ==
    LET number_of_indices == Len0(test_indices)
        info(index) == GetSharedVertexInformationForTwoElements(
                           elems, test_indices[index], trial_indices[index])
        column(index) == <<test_indices[index], trial_indices[index],
                           info(index).value[1], info(index).value[2]>>
    IN IF \E index \in 0..(number_of_indices - 1) : info(index).raised
       THEN Raised
       ELSE Returned([r \in 0..3 |->
                        [index \in 0..(number_of_indices - 1) |->
                            column(index)[r + 1]]])

FindEdgeAdjacency(elems, elem0_indices, elem1_indices) ==
    LET number_of_indices == Len0(elem0_indices)
        index_pairs(index) == GetSharedEdgeInformationForTwoElements(
                                  elems, elem0_indices[index], elem1_indices[index])
        \* index_pairs.flatten() is row after row
        flat(index) == [q \in 0..3 |->
                           index_pairs(index).value[q \div 2][q % 2]]
    IN IF \E index \in 0..(number_of_indices - 1) : index_pairs(index).raised
       THEN Raised
       ELSE Returned([r \in 0..5 |->
                        [index \in 0..(number_of_indices - 1) |->
                            IF r = 0 THEN elem0_indices[index]
                            ELSE IF r = 1 THEN elem1_indices[index]
                            ELSE flat(index)[r - 2]]])

\* GetElementNeighbors without the removal of the element itself
GetElementNeighborsKeepSelf(element_to_element_matrix) ==
    LET number_of_elements == Len0(element_to_element_matrix)
    IN Returned([element_index \in 0..(number_of_elements - 1) |->
                    {j \in 0..(number_of_elements - 1) :
                        element_to_element_matrix[element_index][j] # 0}])

\* the stored column indices of row element_index, without element_index;
\* set.remove raises KeyError when element_index is not among them
GetElementNeighbors(element_to_element_matrix) ==
    LET number_of_elements == Len0(element_to_element_matrix)
        row(element_index) ==
            {j \in 0..(number_of_elements - 1) :
                element_to_element_matrix[element_index][j] # 0}
    IN IF \E element_index \in 0..(number_of_elements - 1) :
              element_index \notin row(element_index)
       THEN Raised
       ELSE Returned([element_index \in 0..(number_of_elements - 1) |->
                        row(element_index) \ {element_index}])

GetElementAdjacencyForEdgesAndVertices ==
    /\ pc = "edges_enumerated"
    /\ IF VertexToElementRaises(vertices, elements)
       THEN /\ pc' = "failed"
            /\ error' = "ValueError"
            /\ UNCHANGED adjVars
       ELSE LET elem_to_elem_matrix == GetElementToElementMatrix(vertices, elements)
                count == GetElementToElementVertexCount(elem_to_elem_matrix)
                vertex_connected == ElementFilter(count.elements1, count.elements2,
                                                  count.nvertices, VERTICES_ID)
                edge_connected == ElementFilter(count.elements1, count.elements2,
                                                count.nvertices, EDGES_ID)
                vertex_adj == FindVertexAdjacency(elements, vertex_connected[1],
                                                  vertex_connected[2])
                edge_adj == FindEdgeAdjacency(elements, edge_connected[1],
                                              edge_connected[2])
                neighbors == GetElementNeighbors(elem_to_elem_matrix)
            IN IF vertex_adj.raised
               THEN /\ pc' = "failed"
                    /\ error' = "ValueError"
                    /\ UNCHANGED adjVars
               ELSE IF edge_adj.raised
               THEN /\ pc' = "failed"
                    /\ error' = "ValueError"
                    /\ vertex_adjacency' = vertex_adj.value
                    /\ UNCHANGED <<edge_adjacency, element_neighbors>>
               ELSE IF neighbors.raised
               THEN /\ pc' = "failed"
                    /\ error' = "KeyError"
                    /\ vertex_adjacency' = vertex_adj.value
                    /\ edge_adjacency' = edge_adj.value
                    /\ UNCHANGED element_neighbors
               ELSE /\ pc' = "adjacency"
                    /\ error' = error
                    /\ vertex_adjacency' = vertex_adj.value
                    /\ edge_adjacency' = edge_adj.value
                    /\ element_neighbors' = neighbors.value
    /\ UNCHANGED <<inputVars, dataVars, edgeVars, geomVars, bndVars,
                   edge_neighbors>>
    /\ UNCHANGED <<deviceVars, callerVars>>

----------------------------------------------------------------------------
(* Geometric quantities.  Only the quantities with exact integer values    *)
(* are carried: the Jacobians, the normal directions and the Gram matrices *)
(* J^T J, whose determinant decides whether np.linalg.inv raises.          *)

\* element_vertices[3 * e + k]: the coordinates of corner k of element e
ElementVertex(verts, elems, e, k) == [d \in 0..2 |-> verts[d][elems[k][e]]]

\* self._jacobians[e]: column c is corner c + 1 minus corner 0
Jacobian(verts, elems, e) ==
    [d \in 0..2 |->
        [c \in 0..1 |-> ElementVertex(verts, elems, e, c + 1)[d]
                        - ElementVertex(verts, elems, e, 0)[d]]]

\* np.cross(a, b)
Cross(a, b) ==
    [d \in 0..2 |-> CASE d = 0 -> a[1] * b[2] - a[2] * b[1]
                      [] d = 1 -> a[2] * b[0] - a[0] * b[2]
                      [] d = 2 -> a[0] * b[1] - a[1] * b[0]]

NormalDirection(jac) == Cross(Column(jac, 0), Column(jac, 1))

\* self.jacobians[index].T.dot(self.jacobians[index])
JacTransposeJac(jac) ==
    [a \in 0..1 |-> [b \in 0..1 |->
        jac[0][a] * jac[0][b] + jac[1][a] * jac[1][b] + jac[2][a] * jac[2][b]]]

Det2(m) == m[0][0] * m[1][1] - m[0][1] * m[1][0]

\* np.linalg.inv if it raised for the zero matrix only
InvRaisesOnZeroMatrix(gram) ==
    \E index \in DOMAIN gram :
        \A a, b \in 0..1 : gram[index][a][b] = 0

\* np.linalg.inv raises LinAlgError for a singular matrix of the stack
InvRaises(gram) == \E index \in DOMAIN gram : Det2(gram[index]) = 0

ComputeGeometricQuantities ==
    /\ pc = "adjacency"
    /\ LET number_of_elements == Shape1(elements)
           jacs == [index \in 0..(number_of_elements - 1) |->
                       Jacobian(vertices, elements, index)]
           gram == [index \in 0..(number_of_elements - 1) |->
                       JacTransposeJac(jacs[index])]
       IN /\ jacobians' = jacs
          /\ normal_directions' = [index \in 0..(number_of_elements - 1) |->
                                      NormalDirection(jacs[index])]
          /\ jac_transpose_jac' = gram
          /\ IF InvRaises(gram)
             THEN pc' = "failed" /\ error' = "LinAlgError"
             ELSE pc' = "geometry" /\ error' = error
    /\ UNCHANGED <<inputVars, dataVars, edgeVars, adjVars, bndVars,
                   edge_neighbors>>
    /\ UNCHANGED <<deviceVars, callerVars>>

----------------------------------------------------------------------------
(* Boundary information.                                                   *)

\* ElementToEdgeMatrix built from the local edges 0 and 1 only
ElementToEdgeMatrixTwoEdges(elem_edges, number_of_elements, number_of_edges) ==
    [e \in 0..(number_of_elements - 1) |->
        [k \in 0..(number_of_edges - 1) |->
            Cardinality({l \in 0..1 : elem_edges[l][e] = k})]]

\* csr_matrix((data, (repeated_element_indices, edge_indices))): entry
\* (e, k) is the number of local edges of element e that are edge k
ElementToEdgeMatrix(elem_edges, number_of_elements, number_of_edges) ==
    [e \in 0..(number_of_elements - 1) |->
        [k \in 0..(number_of_edges - 1) |->
            Cardinality({l \in 0..2 : elem_edges[l][e] = k})]]

\* element_to_edge.T.dot(element_to_edge).diagonal()
EdgeToEdgeDiagonal(element_to_edge, number_of_elements, number_of_edges) ==
    [k \in 0..(number_of_edges - 1) |->
        SumOver([e \in 0..(number_of_elements - 1) |->
                    element_to_edge[e][k] * element_to_edge[e][k]],
                0, number_of_elements - 1)]

\* BoundaryEdges flagging every edge with at most two incident elements
BoundaryEdgesUpToTwo(diagonal) == [k \in DOMAIN diagonal |-> diagonal[k] <= 2]

\* arr1 of _compute_boundary_information
BoundaryEdges(diagonal) == [k \in DOMAIN diagonal |-> diagonal[k] = 1]

\* arr0 of _compute_boundary_information
BoundaryVertices(arr1, edgeArray, number_of_vertices) ==
    [v \in 0..(number_of_vertices - 1) |->
        \E boundary_edge_index \in DOMAIN arr1 :
            /\ arr1[boundary_edge_index]
            /\ \E r \in 0..1 : edgeArray[r][boundary_edge_index] = v]

\* (dtype=np.bool is the builtin bool of the numpy versions the module
\* imports under)
ComputeBoundaryInformation ==
    /\ pc = "geometry"
    /\ LET number_of_elements == Shape1(elements)
           number_of_edges == Shape1(edges)
           number_of_vertices == Shape1(vertices)
           element_to_edge == ElementToEdgeMatrix(element_edges,
                                  number_of_elements, number_of_edges)
           arr1 == BoundaryEdges(EdgeToEdgeDiagonal(element_to_edge,
                                  number_of_elements, number_of_edges))
       IN /\ edge_on_boundary' = arr1
          /\ vertex_on_boundary' = BoundaryVertices(arr1, edges, number_of_vertices)
    /\ pc' = "boundary"
    /\ UNCHANGED <<error, inputVars, dataVars, edgeVars, adjVars, geomVars,
                   edge_neighbors>>
    /\ UNCHANGED <<deviceVars, callerVars>>

----------------------------------------------------------------------------
(* Edge neighbors.                                                         *)

\* EdgeNeighborsBody keeping at most two neighbors of an edge
EdgeNeighborsBodyAtMostTwo(elem_edges, nbrs, element_index, local_index) ==
    [nbrs EXCEPT ![elem_edges[local_index][element_index]] =
                     IF Len(@) >= 2 THEN @ ELSE Append(@, element_index)]

\* the body of the inner loop of _compute_edge_neighbors
EdgeNeighborsBody(elem_edges, nbrs, element_index, local_index) ==
    [nbrs EXCEPT ![elem_edges[local_index][element_index]] =
                     Append(@, element_index)]

RECURSIVE EdgeNeighborsLoop(_, _, _)
\* the two nested loops of _compute_edge_neighbors from iteration pos
\* onwards; iteration pos handles local edge pos % 3 of element pos \div 3
\* (the second test never holds: there are elements, so there are edges;
\* it makes TLC compute nbrs before it goes on)
EdgeNeighborsLoop(elem_edges, nbrs, pos) ==
    IF pos >= 3 * Shape1(elem_edges) \/ DOMAIN nbrs = {} THEN nbrs
    ELSE EdgeNeighborsLoop(elem_edges,
                           EdgeNeighborsBody(elem_edges, nbrs, pos \div 3, pos % 3),
                           pos + 1)

ComputeEdgeNeighbors ==
    /\ pc = "boundary"
    /\ edge_neighbors' =
           EdgeNeighborsLoop(element_edges,
                             [k \in 0..(Shape1(edges) - 1) |-> << >>], 0)
    /\ pc' = "edge_neighbors"
    /\ UNCHANGED <<error, inputVars, dataVars, edgeVars, adjVars, geomVars,
                   bndVars>>
    /\ UNCHANGED <<deviceVars, callerVars>>

\* the end of Grid.__init__: the fields are wrapped into GridData and the
\* grid is handed to the caller
CreateGridData ==
    /\ pc = "edge_neighbors"
    /\ pc' = "done"
    /\ UNCHANGED <<error, inputVars, dataVars, edgeVars, adjVars, geomVars,
                   bndVars, edge_neighbors>>
    /\ UNCHANGED <<deviceVars, callerVars>>

----------------------------------------------------------------------------
(* The constructor as one call: Grid(vertices, elements, domain_indices)   *)
(* run from its first to its last statement inside a method of a grid.     *)

\* self._device_interfaces = {}
EmptyDict == [key \in {} |-> 0]

\* the value itself; the comparison makes TLC compute an array once, as
\* numpy does, and not anew at every use
Evaluated(value) == IF value = value THEN value ELSE value

\* the object at the end of Grid.__init__
GridInitData(verts, elems, dom, st, vertex_adj, edge_adj, neighbors, jacs, edge_array, arr1) ==
    Returned(
        [vertices |-> verts,
         elements |-> elems,
         domain_indices |-> dom,
         edges |-> edge_array,
         element_edges |-> st.element_edges,
         vertex_adjacency |-> vertex_adj.value,
         edge_adjacency |-> edge_adj.value,
         element_neighbors |-> neighbors.value,
         jacobians |-> jacs,
         normal_directions |-> [index \in DOMAIN jacs |->
                                   NormalDirection(jacs[index])],
         vertex_on_boundary |-> BoundaryVertices(arr1, edge_array, Shape1(verts)),
         edge_on_boundary |-> arr1,
         edge_neighbors |->
             EdgeNeighborsLoop(st.element_edges,
                               [k \in 0..(Shape1(edge_array) - 1) |-> << >>], 0),
         device_interfaces |-> EmptyDict])

\* Grid.__init__ from _compute_boundary_information onwards
GridInitBoundary(verts, elems, dom, st, vertex_adj, edge_adj, neighbors, jacs, edge_array) ==
    GridInitData(verts, elems, dom, st, vertex_adj, edge_adj, neighbors, jacs,
                 edge_array,
                 Evaluated(BoundaryEdges(EdgeToEdgeDiagonal(
                     Evaluated(ElementToEdgeMatrix(st.element_edges, Shape1(elems),
                                                   Shape1(edge_array))),
                     Shape1(elems), Shape1(edge_array)))))

\* Grid.__init__ after _compute_geometric_quantities has set the Jacobians
GridInitInverse(verts, elems, dom, st, vertex_adj, edge_adj, neighbors, jacs) ==
    IF InvRaises([index \in DOMAIN jacs |-> JacTransposeJac(jacs[index])])
    THEN Raised
    ELSE GridInitBoundary(verts, elems, dom, st, vertex_adj, edge_adj, neighbors,
                          jacs, Evaluated(EdgeListToArray(st.edges)))

\* Grid.__init__ from _compute_geometric_quantities onwards
GridInitGeometry(verts, elems, dom, st, vertex_adj, edge_adj, neighbors) ==
    IF vertex_adj.raised \/ edge_adj.raised \/ neighbors.raised THEN Raised
    ELSE GridInitInverse(verts, elems, dom, st, vertex_adj, edge_adj, neighbors,
                         Evaluated([index \in 0..(Shape1(elems) - 1) |->
                                       Jacobian(verts, elems, index)]))

\* _get_element_adjacency_for_edges_and_vertices once the pairs of
\* elements are filtered
GridInitSearch(verts, elems, dom, st, elem_to_elem_matrix, vertex_connected, edge_connected) ==
    GridInitGeometry(verts, elems, dom, st,
                     Evaluated(FindVertexAdjacency(elems, vertex_connected[1],
                                                   vertex_connected[2])),
                     Evaluated(FindEdgeAdjacency(elems, edge_connected[1],
                                                 edge_connected[2])),
                     Evaluated(GetElementNeighbors(elem_to_elem_matrix)))

\* _get_element_adjacency_for_edges_and_vertices once the matrix is
\* turned into its list of entries
GridInitFilter(verts, elems, dom, st, elem_to_elem_matrix, count) ==
    GridInitSearch(verts, elems, dom, st, elem_to_elem_matrix,
                   Evaluated(ElementFilter(count.elements1, count.elements2,
                                           count.nvertices, VERTICES_ID)),
                   Evaluated(ElementFilter(count.elements1, count.elements2,
                                           count.nvertices, EDGES_ID)))

\* _get_element_adjacency_for_edges_and_vertices once the matrix is there
GridInitCount(verts, elems, dom, st, elem_to_elem_matrix) ==
    GridInitFilter(verts, elems, dom, st, elem_to_elem_matrix,
                   Evaluated(GetElementToElementVertexCount(elem_to_elem_matrix)))

\* Grid.__init__ from _get_element_adjacency_for_edges_and_vertices onwards
GridInitAdjacency(verts, elems, dom, st) ==
    IF VertexToElementRaises(verts, elems) THEN Raised
    ELSE GridInitCount(verts, elems, dom, st,
                       Evaluated(GetElementToElementMatrix(verts, elems)))

\* Grid.__init__ from _enumerate_edges onwards
GridInitEdges(verts, elems, dom) ==
    GridInitAdjacency(verts, elems, dom,
                      EnumerateEdgesLoop(elems, EnumerateEdgesStart(elems), 0))

\* Grid(vertices, elements, domain_indices): the fields of the object it
\* returns, or Raised when a stage of the constructor raises
GridInit(vertices_arg, elements_arg, domain_indices_arg) ==
    GridInitEdges(
        Evaluated(AlignFloat64Array(vertices_arg)),
        Evaluated(AlignUInt32Array(elements_arg)),
        Evaluated(AlignUInt32Vector(
            IF domain_indices_arg = None
            THEN [e \in 0..(Shape1(elements_arg) - 1) |-> 0]
            ELSE domain_indices_arg)))

----------------------------------------------------------------------------
(* Refinement.                                                             *)

\* 0.5 * x: the sums halved here are even integers, so the product is exact
Half(x) == x \div 2

\* new_vertices of refine: the old vertices, then one vertex per edge
RefineVertices(verts, edge_array) ==
    LET number_of_vertices == Shape1(verts)
        new_number_of_vertices == Shape1(edge_array) + number_of_vertices
    IN [d \in 0..2 |->
          [v \in 0..(new_number_of_vertices - 1) |->
              IF v < number_of_vertices THEN verts[d][v]
              ELSE Half(verts[d][edge_array[0][v - number_of_vertices]]
                        + verts[d][edge_array[1][v - number_of_vertices]])]]

\* np.tile(a, 4) in the place of np.repeat(a, 4)
Tile4(a) == [i \in 0..(4 * Len0(a) - 1) |-> a[i % Len0(a)]]

\* np.repeat(a, 4)
Repeat4(a) == [i \in 0..(4 * Len0(a) - 1) |-> a[i \div 4]]

\* RefineChildren with the midpoints of the local edges 1 and 2 exchanged
RefineChildrenCyclic(elem, elem_edges, number_of_vertices) ==
    LET vertex0 == elem[0]
        vertex1 == elem[1]
        vertex2 == elem[2]
        vertex01 == elem_edges[0] + number_of_vertices
        vertex12 == elem_edges[1] + number_of_vertices
        vertex20 == elem_edges[2] + number_of_vertices
    IN <<<<vertex0, vertex01, vertex20>>,
         <<vertex01, vertex1, vertex12>>,
         <<vertex12, vertex2, vertex20>>,
         <<vertex01, vertex12, vertex20>>>>

\* the four columns the loop of refine writes for one element: elem is its
\* column of elements, elem_edges its column of element_edges
RefineChildren(elem, elem_edges, number_of_vertices) ==
    LET vertex0 == elem[0]
        vertex1 == elem[1]
        vertex2 == elem[2]
        vertex01 == elem_edges[0] + number_of_vertices
        vertex20 == elem_edges[1] + number_of_vertices
        vertex12 == elem_edges[2] + number_of_vertices
    IN <<<<vertex0, vertex01, vertex20>>,
         <<vertex01, vertex1, vertex12>>,
         <<vertex12, vertex2, vertex20>>,
         <<vertex01, vertex12, vertex20>>>>

\* RefineElements with the first child in the place of the middle child
RefineElementsFirstChildTwice(elems, elem_edges, number_of_vertices) ==
    [k \in 0..2 |->
        [column \in 0..(4 * Shape1(elems) - 1) |->
            RefineChildren(Column(elems, column \div 4),
                           Column(elem_edges, column \div 4),
                           number_of_vertices)[((column % 4) % 3) + 1][k + 1]]]

\* new_elements of refine: column 4 * index + c is child c of element index
RefineElements(elems, elem_edges, number_of_vertices) ==
    [k \in 0..2 |->
        [column \in 0..(4 * Shape1(elems) - 1) |->
            RefineChildren(Column(elems, column \div 4),
                           Column(elem_edges, column \div 4),
                           number_of_vertices)[(column % 4) + 1][k + 1]]]

\* refine() if it wrote the refined vertices into the grid itself
RefineInPlace ==
    /\ pc = "done"
    /\ refined' = GridInit(RefineVertices(vertices, edges),
                           RefineElements(elements, element_edges,
                                          Shape1(vertices)),
                           Repeat4(domain_indices))
    /\ vertices' = RefineVertices(vertices, edges)
    /\ UNCHANGED <<pc, error, inputVars, elements, domain_indices, edgeVars,
                   adjVars, geomVars, bndVars, edge_neighbors>>
    /\ UNCHANGED <<deviceVars, result, iterators>>

\* refined = self.refine() on the built grid; the caller keeps the value
Refine ==
    /\ pc = "done"
    /\ refined' = GridInit(RefineVertices(vertices, edges),
                           RefineElements(elements, element_edges,
                                          Shape1(vertices)),
                           Repeat4(domain_indices))
    /\ UNCHANGED <<gridVars, deviceVars, result, iterators>>

----------------------------------------------------------------------------
(* Queries on the built grid.  The caller keeps the value of the last      *)
(* query in result, with the name of the query and its arguments.          *)

\* the grids the caller holds: the built grid and, after refine(), the
\* grid refine() returned
Grids ==
    IF refined # None /\ ~refined.raised THEN {"self", "refined"} ELSE {"self"}

\* the fields of a grid the caller holds
GridFields(g) ==
    IF g = "refined" THEN refined.value
    ELSE [vertices |-> vertices,
          elements |-> elements,
          domain_indices |-> domain_indices,
          edges |-> edges,
          element_edges |-> element_edges,
          vertex_adjacency |-> vertex_adjacency,
          edge_adjacency |-> edge_adjacency,
          element_neighbors |-> element_neighbors,
          jacobians |-> jacobians,
          normal_directions |-> normal_directions,
          vertex_on_boundary |-> vertex_on_boundary,
          edge_on_boundary |-> edge_on_boundary,
          edge_neighbors |-> edge_neighbors,
          device_interfaces |-> device_interfaces]

\* the codim arguments tried: the three valid ones and one on either side
Codims == (0 - 1)..3

EntityCountOf(grid, codim) ==
    IF codim = 0 THEN Returned(Shape1(grid.elements))
    ELSE IF codim = 1 THEN Returned(Shape1(grid.edges))
    ELSE IF codim = 2 THEN Returned(Shape1(grid.vertices))
    ELSE Raised

EntityCount ==
    /\ pc = "done"
    /\ \E codim \in Codims :
          LET outcome == EntityCountOf(GridFields("self"), codim)
          IN result' = [op |-> "entity_count", args |-> <<codim>>,
                        raised |-> outcome.raised, value |-> outcome.value]
    /\ UNCHANGED <<gridVars, deviceVars, refined, iterators>>

\* a.T of a two-dimensional array
Transpose(a) ==
    [j \in 0..(Shape1(a) - 1) |-> [i \in 0..(Len0(a) - 1) |-> a[i][j]]]

\* FlattenF going through the array row after row
FlattenFRowAfterRow(a) ==
    [p \in 0..(Len0(a) * Shape1(a) - 1) |-> a[p \div Shape1(a)][p % Shape1(a)]]

\* a.flatten(order="F"): column after column
FlattenF(a) ==
    [p \in 0..(Len0(a) * Shape1(a) - 1) |-> a[p % Len0(a)][p \div Len0(a)]]

\* a.flatten(order="C"): row after row
FlattenC(a) ==
    [p \in 0..(Len0(a) * Shape1(a) - 1) |-> a[p \div Shape1(a)][p % Shape1(a)]]

\* TakeRows taking the rows of a in their own order
TakeRowsInOrder(a, rows) == [p \in DOMAIN rows |-> a[p % Len0(a)]]

\* a[rows, :] for an index array rows
TakeRows(a, rows) == [p \in DOMAIN rows |-> a[rows[p]]]

\* the property as_array
AsArrayOf(grid) ==
    FlattenC(TakeRows(Transpose(grid.vertices), FlattenF(grid.elements)))

AsArray ==
    /\ pc = "done"
    /\ result' = [op |-> "as_array", args |-> << >>, raised |-> FALSE,
                  value |-> AsArrayOf(GridFields("self"))]
    /\ UNCHANGED <<gridVars, deviceVars, refined, iterators>>

\* np.min(a) and np.max(a) of a one-dimensional array
Min(a) == CHOOSE x \in {a[i] : i \in DOMAIN a} : \A i \in DOMAIN a : x <= a[i]

Max(a) == CHOOSE x \in {a[i] : i \in DOMAIN a} : \A i \in DOMAIN a : x >= a[i]

\* the property bounding_box
BoundingBoxOf(grid) ==
    [d \in 0..2 |-> [c \in 0..1 |-> IF c = 0 THEN Min(grid.vertices[d])
                                    ELSE Max(grid.vertices[d])]]

BoundingBox ==
    /\ pc = "done"
    /\ result' = [op |-> "bounding_box", args |-> << >>, raised |-> FALSE,
                  value |-> BoundingBoxOf(GridFields("self"))]
    /\ UNCHANGED <<gridVars, deviceVars, refined, iterators>>

----------------------------------------------------------------------------
(* Views: Element, Edge and Vertex objects.  An object is the record of    *)
(* its fields _grid and _index together with its class (kind) and its      *)
(* identity (id): the place where the caller keeps it, which tells apart   *)
(* the objects held at one time.                                           *)

Element(grid, index, id) ==
    [kind |-> "Element", grid |-> grid, index |-> index, id |-> id]

Edge(grid, index, id) ==
    [kind |-> "Edge", grid |-> grid, index |-> index, id |-> id]

Vertex(grid, index, id) ==
    [kind |-> "Vertex", grid |-> grid, index |-> index, id |-> id]

\* Element.__eq__(self, other); Grid defines no __eq__, so other.grid ==
\* self.grid holds for one and the same grid object only
ElementEq(self, other) ==
    IF other.kind = "Element"
    THEN IF other.grid = self.grid /\ other.index = self.index
         THEN TRUE ELSE FALSE
    ELSE FALSE

\* the == of object, which Edge and Vertex inherit: the same object
ObjectEq(self, other) == self.id = other.id

\* left == right in Python: the __eq__ of the class of left; when that is
\* the one of object and the objects differ, the __eq__ of right is asked
HandleEq(left, right) ==
    IF left.kind = "Element" THEN ElementEq(left, right)
    ELSE IF ObjectEq(left, right) THEN TRUE
    ELSE IF right.kind = "Element" THEN ElementEq(right, left)
    ELSE FALSE

\* grid.get_element(index) on a grid the caller holds
GetElement ==
    /\ pc = "done"
    /\ \E g \in Grids :
          \E index \in 0..(Shape1(GridFields(g).elements) - 1) :
              result' = [op |-> "get_element", args |-> <<g, index>>,
                         raised |-> FALSE,
                         value |-> Element(g, index, <<"result", 0>>)]
    /\ UNCHANGED <<gridVars, deviceVars, refined, iterators>>

----------------------------------------------------------------------------
(* Entity iterators.  entity_iterator returns a generator; the caller      *)
(* keeps it under a name and takes its values one by one.  A generator is  *)
(* the record of its codim, of the loop variable index of its for loop     *)
(* (the next value of range), of whether it has ended (stopped) and of the *)
(* objects the caller got from it so far (yielded).                        *)

\* the names under which a caller keeps generators
IteratorNames == {"first", "second"}

\* the generator objects entity_iterator returns, before their first step
NewGenerator(codim) ==
    [codim |-> codim, index |-> 0, stopped |-> FALSE, yielded |-> << >>]

\* Element(self, index), Edge(self, index) or Vertex(self, index)
Yielded(codim, index, id) ==
    IF codim = 0 THEN Element("self", index, id)
    ELSE IF codim = 1 THEN Edge("self", index, id)
    ELSE Vertex("self", index, id)

\* GeneratorNext with one loop variable for all the generators of a codim
GeneratorNextShared(gens, name, grid) ==
    LET gen == gens[name]
        count == EntityCountOf(grid, gen.codim).value
        advanced == [other \in DOMAIN gens |->
                        IF gens[other] # None /\ gens[other].codim = gen.codim
                        THEN [gens[other] EXCEPT !.index = gen.index + 1]
                        ELSE gens[other]]
    IN IF gen.index < count
       THEN [advanced EXCEPT
               ![name].yielded =
                   Append(gen.yielded,
                          Yielded(gen.codim, gen.index, <<name, gen.index>>))]
       ELSE [gens EXCEPT ![name].stopped = TRUE]

\* next(gens[name]): one more pass through the for loop of the generator,
\* or its end
GeneratorNext(gens, name, grid) ==
    LET gen == gens[name]
        count == EntityCountOf(grid, gen.codim).value
    IN IF gen.index < count
       THEN [gens EXCEPT
               ![name].index = gen.index + 1,
               ![name].yielded =
                   Append(gen.yielded,
                          Yielded(gen.codim, gen.index, <<name, gen.index>>))]
       ELSE [gens EXCEPT ![name].stopped = TRUE]

\* name = grid.entity_iterator(codim)
EntityIterator ==
    /\ pc = "done"
    /\ \E name \in DOMAIN iterators : \E codim \in Codims :
          IF codim \notin {0, 1, 2}
          THEN /\ result' = [op |-> "entity_iterator", args |-> <<codim>>,
                             raised |-> TRUE, value |-> << >>]
               /\ UNCHANGED iterators
          ELSE /\ iterators' = [iterators EXCEPT ![name] = NewGenerator(codim)]
               /\ UNCHANGED result
    /\ UNCHANGED <<gridVars, deviceVars, refined>>

\* next(name) on a generator that has not ended
IteratorNext ==
    /\ pc = "done"
    /\ \E name \in DOMAIN iterators :
          /\ iterators[name] # None
          /\ ~iterators[name].stopped
          /\ iterators' = GeneratorNext(iterators, name, GridFields("self"))
    /\ UNCHANGED <<gridVars, deviceVars, refined, result>>

\* the objects the caller holds: those it got from its generators and the
\* one it got from get_element
HeldHandles ==
    UNION {{iterators[name].yielded[n] : n \in 1..Len(iterators[name].yielded)} :
           name \in {other \in DOMAIN iterators : iterators[other] # None}}
    \cup (IF result # None /\ result.op = "get_element" THEN {result.value}
          ELSE {})

----------------------------------------------------------------------------
(* push_to_device.  A thread makes one call after the other; the           *)
(* statements of a call are steps, and the steps of different threads      *)
(* interleave.                                                             *)

Threads == {"thread1", "thread2"}

\* the device interfaces handed in: two devices of one context
DeviceInterfaces ==
    {[name |-> "device0", context |-> "context0"],
     [name |-> "device1", context |-> "context0"]}

Precisions == {"single", "double"}

\* a thread that has not called push_to_device
NoCall == [pc |-> "idle", key |-> << >>, interface |-> 0 - 1, value |-> 0 - 1]

\* (context, precision) in self.device_interfaces.keys()
Lookup(dict, key) == key \in DOMAIN dict

\* dict[key] = value
SetItem(dict, key, value) ==
    [k \in DOMAIN dict \cup {key} |-> IF k = key THEN value ELSE dict[k]]

\* the membership test of push_to_device and, on a hit, its return
PushToDeviceLookup(t) ==
    /\ pc = "done"
    /\ calls[t].pc \in {"idle", "returned"}
    /\ \E device_interface \in DeviceInterfaces : \E precision \in Precisions :
          LET context == device_interface.context
              key == <<context, precision>>
          IN IF Lookup(device_interfaces, key)
             THEN calls' = [calls EXCEPT ![t] =
                              [pc |-> "returned", key |-> key,
                               interface |-> 0 - 1,
                               value |-> device_interfaces[key]]]
             ELSE calls' = [calls EXCEPT ![t] =
                              [pc |-> "construct", key |-> key,
                               interface |-> 0 - 1, value |-> 0 - 1]]
    /\ UNCHANGED <<gridVars, device_interfaces, interfaces_created, callerVars>>

\* interface = DeviceGridInterface(self, device_interface, precision): a
\* new object, named by the number of interfaces created before it
PushToDeviceConstruct(t) ==
    /\ calls[t].pc = "construct"
    /\ calls' = [calls EXCEPT ![t].pc = "insert",
                              ![t].interface = interfaces_created]
    /\ interfaces_created' = interfaces_created + 1
    /\ UNCHANGED <<gridVars, device_interfaces, callerVars>>

\* self.device_interfaces[(device_interface.context, precision)] =
\* interface; return interface
PushToDeviceInsert(t) ==
    /\ calls[t].pc = "insert"
    /\ device_interfaces' = SetItem(device_interfaces, calls[t].key,
                                    calls[t].interface)
    /\ calls' = [calls EXCEPT ![t].pc = "returned",
                              ![t].value = calls[t].interface]
    /\ UNCHANGED <<gridVars, interfaces_created, callerVars>>

PushToDevice ==
    \E t \in DOMAIN calls :
        \/ PushToDeviceLookup(t)
        \/ PushToDeviceConstruct(t)
        \/ PushToDeviceInsert(t)

----------------------------------------------------------------------------
(* Inputs.                                                                 *)

\* V points in general position (no three on a line, as x and y run along
\* a parabola) with even integer coordinates, so that the midpoint of two
\* of them has integer coordinates as well
Coordinates(V) ==
    [d \in 0..2 |-> [v \in 0..(V - 1) |->
        CASE d = 0 -> 2 * v [] d = 1 -> 2 * v * v [] d = 2 -> 2 * (v % 3)]]

\* the 3 x M array whose columns are the triples of the list cols
ElementArray(cols) ==
    [k \in 0..2 |-> [e \in 0..(Len(cols) - 1) |-> cols[e + 1][k + 1]]]

\* the bijections of 0..(n - 1)
Permutations0(n) ==
    {p \in [0..(n - 1) -> 0..(n - 1)] :
        \A i, j \in 0..(n - 1) : p[i] = p[j] => i = j}

\* the mesh with its vertices renumbered by relabel and the corners of
\* every element reordered by corner
Transformed(mesh, relabel, corner) ==
    [V |-> mesh.V,
     elements |-> [k \in 0..2 |->
                     [e \in DOMAIN mesh.elements[0] |->
                         relabel[mesh.elements[corner[k]][e]]]]]

\* the surface of a tetrahedron: 4 triangles, 6 edges, 4 vertices
Tetrahedron ==
    [V |-> 4,
     elements |-> ElementArray(<<<<0, 1, 2>>, <<0, 3, 1>>, <<0, 2, 3>>, <<1, 3, 2>>>>)]

\* three triangles around one edge (a non-manifold edge)
Fan ==
    [V |-> 5,
     elements |-> ElementArray(<<<<0, 1, 2>>, <<1, 0, 3>>, <<0, 1, 4>>>>)]

\* a strip of three triangles: the outer two meet in one vertex only
Strip ==
    [V |-> 5,
     elements |-> ElementArray(<<<<0, 1, 2>>, <<1, 3, 2>>, <<2, 3, 4>>>>)]

\* two triangles without a common vertex
DisjointPair ==
    [V |-> 6,
     elements |-> ElementArray(<<<<0, 1, 2>>, <<3, 5, 4>>>>)]

\* three triangles around an inner vertex: a tetrahedron without one face
Cone ==
    [V |-> 4,
     elements |-> ElementArray(<<<<0, 1, 2>>, <<0, 2, 3>>, <<0, 3, 1>>>>)]

\* two triangles on the same three vertices, with opposite orientation
DoubleTriangle ==
    [V |-> 3,
     elements |-> ElementArray(<<<<0, 1, 2>>, <<0, 2, 1>>>>)]

\* a triangle with a repeated vertex next to a proper triangle
DegeneratePair ==
    [V |-> 4,
     elements |-> ElementArray(<<<<0, 0, 1>>, <<0, 2, 3>>>>)]

BaseMeshes ==
    {Tetrahedron, Cone, Fan, Strip, DisjointPair, DoubleTriangle,
     DegeneratePair}

\* the base meshes under every renumbering of the vertices and every
\* reordering of the corners
NamedMeshes ==
    UNION {{Transformed(mesh, relabel, corner) :
                relabel \in Permutations0(mesh.V), corner \in Permutations0(3)} :
           mesh \in BaseMeshes}

\* every 3 x M array over the indices 0..NumVertices, M in 1..MaxElems, on
\* NumVertices vertices: repeated indices are included, and the index
\* NumVertices is out of range
FreeMeshes ==
    UNION {{[V |-> NumVertices, elements |-> elems] :
                elems \in [0..2 -> [0..(M - 1) -> 0..NumVertices]]} :
           M \in 1..MaxElems}

\* a domain_indices argument: one tag per element
DomainTags(mesh) == [e \in DOMAIN mesh.elements[0] |-> e + 1]

\* the state on entry of Grid.__init__, after the fields are set to None;
\* the named meshes come with domain indices, the free ones without
Init ==
    /\ pc = "start"
    /\ error = NoError
    /\ \/ \E mesh \in NamedMeshes :
             /\ arg_vertices = Coordinates(mesh.V)
             /\ arg_elements = mesh.elements
             /\ arg_domain_indices = DomainTags(mesh)
       \/ \E mesh \in FreeMeshes :
             /\ arg_vertices = Coordinates(mesh.V)
             /\ arg_elements = mesh.elements
             /\ arg_domain_indices = None
    /\ vertices = None
    /\ elements = None
    /\ domain_indices = None
    /\ edges = None
    /\ element_edges = None
    /\ edge_adjacency = None
    /\ vertex_adjacency = None
    /\ element_neighbors = None
    /\ jacobians = None
    /\ normal_directions = None
    /\ jac_transpose_jac = None
    /\ vertex_on_boundary = None
    /\ edge_on_boundary = None
    /\ edge_neighbors = None
    /\ device_interfaces = EmptyDict
    /\ interfaces_created = 0
    /\ calls = [t \in Threads |-> NoCall]
    /\ refined = None
    /\ result = None
    /\ iterators = [name \in IteratorNames |-> None]

Next ==
    \/ NormalizeAndAssignInput
    \/ EnumerateEdges
    \/ GetElementAdjacencyForEdgesAndVertices
    \/ ComputeGeometricQuantities
    \/ ComputeBoundaryInformation
    \/ ComputeEdgeNeighbors
    \/ CreateGridData

Spec == Init /\ [][Next]_vars

----------------------------------------------------------------------------
(* Grids in use: a grid is built from one of a few meshes, and the caller  *)
(* then works with it.                                                     *)

\* one triangle
Triangle ==
    [V |-> 3, elements |-> ElementArray(<<<<0, 1, 2>>>>)]

\* the vertices numbered as they are, and in the reverse order
Renumberings(V) == {[v \in 0..(V - 1) |-> v], [v \in 0..(V - 1) |-> V - 1 - v]}

\* the base meshes and the triangle, numbered both ways, under every
\* reordering of the corners
QueryMeshes ==
    UNION {{Transformed(mesh, relabel, corner) :
                relabel \in Renumberings(mesh.V), corner \in Permutations0(3)} :
           mesh \in BaseMeshes \cup {Triangle}}

IteratorMeshes == {Triangle, Strip, DoubleTriangle}

HandleMeshes == {Triangle, DoubleTriangle}

DeviceMeshes == {Triangle, Fan}

\* the state on entry of Grid.__init__ in a program with the given
\* threads, whose caller keeps generators under the given names
Entry(mesh, threads, names) ==
    /\ pc = "start"
    /\ error = NoError
    /\ arg_vertices = Coordinates(mesh.V)
    /\ arg_elements = mesh.elements
    /\ arg_domain_indices = DomainTags(mesh)
    /\ vertices = None
    /\ elements = None
    /\ domain_indices = None
    /\ edges = None
    /\ element_edges = None
    /\ edge_adjacency = None
    /\ vertex_adjacency = None
    /\ element_neighbors = None
    /\ jacobians = None
    /\ normal_directions = None
    /\ jac_transpose_jac = None
    /\ vertex_on_boundary = None
    /\ edge_on_boundary = None
    /\ edge_neighbors = None
    /\ device_interfaces = EmptyDict
    /\ interfaces_created = 0
    /\ calls = [t \in threads |-> NoCall]
    /\ refined = None
    /\ result = None
    /\ iterators = [name \in names |-> None]

\* construction, then refine
InitRefine == \E mesh \in QueryMeshes : Entry(mesh, Threads, IteratorNames)

NextRefine ==
    \/ Next
    \/ Refine

SpecRefine == InitRefine /\ [][NextRefine]_vars

\* construction, then the queries
InitQuery == \E mesh \in QueryMeshes : Entry(mesh, Threads, IteratorNames)

NextQuery ==
    \/ Next
    \/ EntityCount
    \/ AsArray
    \/ BoundingBox

SpecQuery == InitQuery /\ [][NextQuery]_vars

\* construction, then the counts and the iterators
InitIterator ==
    \E mesh \in IteratorMeshes : Entry(mesh, Threads, IteratorNames)

NextIterator ==
    \/ Next
    \/ EntityCount
    \/ EntityIterator
    \/ IteratorNext

SpecIterator == InitIterator /\ [][NextIterator]_vars

\* construction, then refine, get_element and the iterators
InitHandles ==
    \E mesh \in HandleMeshes : Entry(mesh, Threads, IteratorNames)

NextHandles ==
    \/ Next
    \/ Refine
    \/ GetElement
    \/ EntityIterator
    \/ IteratorNext

SpecHandles == InitHandles /\ [][NextHandles]_vars

\* construction, then push_to_device from every thread
InitDevice == \E mesh \in DeviceMeshes : Entry(mesh, Threads, IteratorNames)

NextDevice ==
    \/ Next
    \/ PushToDevice

SpecDevice == InitDevice /\ [][NextDevice]_vars

\* the free element arrays with an index that is not a vertex
OutOfRangeMeshes ==
    {mesh \in FreeMeshes :
        \E k \in 0..2 : \E e \in DOMAIN mesh.elements[0] :
            mesh.elements[k][e] >= mesh.V}

\* construction, then every public operation, one after the other: one
\* thread, and a caller that keeps one generator; the caller may also have
\* handed over elements with an index out of range
InitPublic ==
    \E mesh \in {Triangle} \cup OutOfRangeMeshes :
        Entry(mesh, {"thread1"}, {"first"})

NextPublic ==
    \/ Next
    \/ Refine
    \/ EntityCount
    \/ AsArray
    \/ BoundingBox
    \/ GetElement
    \/ EntityIterator
    \/ IteratorNext
    \/ PushToDevice

SpecPublic == InitPublic /\ [][NextPublic]_vars

----------------------------------------------------------------------------
(* Vocabulary of the properties.                                           *)

Built == pc = "done"

NumberOfVertices == Shape1(vertices)

NumberOfElements == Shape1(elements)

NumberOfEdges == Shape1(edges)

ElementIndices == 0..(NumberOfElements - 1)

EdgeIndices == 0..(NumberOfEdges - 1)

\* the three vertex indices of every element are distinct and in range
ValidElements ==
    /\ elements # None
    /\ \A e \in ElementIndices :
          /\ \A k \in 0..2 : elements[k][e] < NumberOfVertices
          /\ elements[0][e] # elements[1][e]
          /\ elements[1][e] # elements[2][e]
          /\ elements[0][e] # elements[2][e]

\* the canonical (min, max) pair of two vertex indices
CanonicalPair(a, b) == IF a <= b THEN <<a, b>> ELSE <<b, a>>

\* the canonical pair of local edge l of element e, with local edge 0 =
\* (v0, v1), local edge 1 = (v2, v0) and local edge 2 = (v1, v2)
LocalEdgePair(e, l) ==
    CASE l = 0 -> CanonicalPair(elements[0][e], elements[1][e])
      [] l = 1 -> CanonicalPair(elements[2][e], elements[0][e])
      [] l = 2 -> CanonicalPair(elements[1][e], elements[2][e])

\* the scan of _enumerate_edges: position 3 * e + l is local edge l of
\* element e
ScanPositions == 0..(3 * NumberOfElements - 1)

ScanPair(p) == LocalEdgePair(p \div 3, p % 3)

\* the canonical pair held by global edge k
EdgePair(k) == CanonicalPair(edges[0][k], edges[1][k])

\* the (element, local edge) occurrences of global edge k
Occurrences(k) == {p \in ScanPositions : element_edges[p % 3][p \div 3] = k}

----------------------------------------------------------------------------
(* C1: for a mesh built from elements with three distinct vertex indices   *)
(* in range, number_of_edges is the number of distinct canonical           *)
(* (min, max) pairs over the three local edges of all elements, and no two *)
(* distinct global edge indices hold the same canonical pair.              *)
C1_EdgeCountIsDistinctPairs ==
    (Built /\ ValidElements) =>
        /\ NumberOfEdges = Cardinality({ScanPair(p) : p \in ScanPositions})
        /\ \A j, k \in EdgeIndices : j # k => EdgePair(j) # EdgePair(k)

\* a built mesh in which two elements traverse a common edge in opposite
\* directions, so that fewer than 3 M edges are enumerated
C1_Witness ==
    /\ Built
    /\ ValidElements
    /\ NumberOfEdges < 3 * NumberOfElements
    /\ \E e1, e2 \in ElementIndices :
          /\ e1 # e2
          /\ elements[0][e1] = elements[1][e2]
          /\ elements[1][e1] = elements[0][e2]

(* C2: for every element e and local edge l, the global edge               *)
(* edges[:, element_edges[l, e]] is the canonical pair of the fixed local  *)
(* pairing (0 = (v0, v1), 1 = (v2, v0), 2 = (v1, v2)), and every entry of  *)
(* element_edges lies in 0..E-1.                                           *)
C2_ElementEdgesResolveLocalPairs ==
    Built =>
        \A e \in ElementIndices : \A l \in 0..2 :
            /\ element_edges[l][e] \in EdgeIndices
            /\ edges[0][element_edges[l][e]] = LocalEdgePair(e, l)[1]
            /\ edges[1][element_edges[l][e]] = LocalEdgePair(e, l)[2]

\* a built mesh with an element whose corners are in descending order and
\* whose local edge 1 is an edge first met in an earlier element
C2_Witness ==
    /\ Built
    /\ \E e \in ElementIndices :
          /\ e > 0
          /\ elements[0][e] > elements[1][e]
          /\ elements[1][e] > elements[2][e]
          /\ \E l \in 0..2 : element_edges[1][e] = element_edges[l][e - 1]

\* the first scan position that holds the same canonical pair as p
FirstPosition(p) ==
    CHOOSE q \in 0..p :
        /\ ScanPair(q) = ScanPair(p)
        /\ \A r \in 0..(q - 1) : ScanPair(r) # ScanPair(p)

\* the number of distinct canonical pairs met before scan position q
DistinctBefore(q) == Cardinality({ScanPair(r) : r \in 0..(q - 1)})

(* C3: global edge indices are assigned in first-encounter order: scanning *)
(* the elements 0..M-1 and in each the local edges 0, 1, 2, the k-th       *)
(* distinct canonical pair met gets global index k; the indices are        *)
(* gap-free and increase along the scan.  The formula gives every entry of *)
(* edges and element_edges as a function of the elements alone, so two     *)
(* constructions from the same input have the same tables.                 *)
C3_FirstEncounterOrder ==
    Built =>
        /\ \A p \in ScanPositions :
              /\ element_edges[p % 3][p \div 3] = DistinctBefore(FirstPosition(p))
              /\ edges[0][element_edges[p % 3][p \div 3]] = ScanPair(p)[1]
              /\ edges[1][element_edges[p % 3][p \div 3]] = ScanPair(p)[2]
        /\ {element_edges[p % 3][p \div 3] : p \in ScanPositions} = EdgeIndices
        /\ \A p, q \in ScanPositions :
              (FirstPosition(p) < FirstPosition(q)) =>
                  element_edges[p % 3][p \div 3] < element_edges[q % 3][q \div 3]

\* a built mesh in which a later element meets an old edge before a new one
\* and then a new edge: the new edge gets the next unused index
C3_Witness ==
    /\ Built
    /\ NumberOfElements >= 2
    /\ \E e \in ElementIndices :
          /\ e > 0
          /\ FirstPosition(3 * e) < 3 * e
          /\ FirstPosition(3 * e + 1) = 3 * e + 1
          /\ element_edges[1][e] = DistinctBefore(3 * e + 1)
          /\ element_edges[1][e] > element_edges[0][e] + 1

----------------------------------------------------------------------------
\* the vertex indices of element e
VertexSet(e) == {elements[k][e] : k \in 0..2}

\* the number of vertices two elements have in common
SharedVertices(a, b) == Cardinality(VertexSet(a) \cap VertexSet(b))

VertexAdjacencyColumns == 0..(Shape1(vertex_adjacency) - 1)

EdgeAdjacencyColumns == 0..(Shape1(edge_adjacency) - 1)

\* the position of the first corner of element a at or after position
\* from that is a vertex of element b
FirstCommonCorner(a, b, from) ==
    CHOOSE i \in from..2 :
        /\ elements[i][a] \in VertexSet(b)
        /\ \A h \in from..(i - 1) : elements[h][a] \notin VertexSet(b)

(* C4: vertex_adjacency contains a column (A, B, i, j) exactly for the     *)
(* element pairs A # B that share exactly one vertex, and in every column  *)
(* i and j are local indices with elements[i, A] = elements[j, B]; pairs   *)
(* sharing zero, two or three vertices never appear.                       *)
C4_VertexAdjacency ==
    Built =>
        /\ \A a, b \in ElementIndices :
              (\E c \in VertexAdjacencyColumns :
                   vertex_adjacency[0][c] = a /\ vertex_adjacency[1][c] = b)
              <=> (a # b /\ SharedVertices(a, b) = 1)
        /\ \A c \in VertexAdjacencyColumns :
              /\ vertex_adjacency[2][c] \in 0..2
              /\ vertex_adjacency[3][c] \in 0..2
              /\ elements[vertex_adjacency[2][c]][vertex_adjacency[0][c]]
                 = elements[vertex_adjacency[3][c]][vertex_adjacency[1][c]]

\* a built mesh with a pair in vertex_adjacency, a pair with two common
\* vertices and the pair of both other elements left out of it
C4_Witness ==
    /\ Built
    /\ NumberOfElements = 3
    /\ Shape1(vertex_adjacency) > 0
    /\ \E a, b \in ElementIndices : SharedVertices(a, b) = 2
    /\ \E c \in VertexAdjacencyColumns :
          vertex_adjacency[2][c] = 2 /\ vertex_adjacency[3][c] = 0

(* C5: edge_adjacency contains a column (A, B, i0, i1, j0, j1) exactly for *)
(* the element pairs A # B that share exactly two vertices; in every       *)
(* column elements[i0, A] = elements[j0, B] and elements[i1, A] =          *)
(* elements[j1, B], the second correspondence is the first one found       *)
(* strictly behind i0 in A (so i0 < i1), and j0 # j1.                      *)
C5_EdgeAdjacency ==
    Built =>
        /\ \A a, b \in ElementIndices :
              (\E c \in EdgeAdjacencyColumns :
                   edge_adjacency[0][c] = a /\ edge_adjacency[1][c] = b)
              <=> (a # b /\ SharedVertices(a, b) = 2)
        /\ \A c \in EdgeAdjacencyColumns :
              LET a == edge_adjacency[0][c]
                  b == edge_adjacency[1][c]
                  i0 == edge_adjacency[2][c]
                  i1 == edge_adjacency[3][c]
                  j0 == edge_adjacency[4][c]
                  j1 == edge_adjacency[5][c]
              IN /\ {i0, i1, j0, j1} \subseteq 0..2
                 /\ elements[i0][a] = elements[j0][b]
                 /\ elements[i1][a] = elements[j1][b]
                 /\ i0 = FirstCommonCorner(a, b, 0)
                 /\ i1 = FirstCommonCorner(a, b, i0 + 1)
                 /\ i0 < i1
                 /\ j0 # j1

\* a built mesh with an edge_adjacency column whose common edge is the
\* corners 1 and 2 of the first element, met in reverse in the second
C5_Witness ==
    /\ Built
    /\ \E c \in EdgeAdjacencyColumns :
          /\ edge_adjacency[2][c] = 1
          /\ edge_adjacency[3][c] = 2
          /\ edge_adjacency[4][c] > edge_adjacency[5][c]

\* no two columns of the adjacency array for the same ordered pair
OncePerOrderedPair(adjacency) ==
    \A c, d \in 0..(Shape1(adjacency) - 1) :
        (adjacency[0][c] = adjacency[0][d] /\ adjacency[1][c] = adjacency[1][d])
            => c = d

\* no column (B, A) next to a column (A, B)
OnlyOneDirection(adjacency) ==
    \A c, d \in 0..(Shape1(adjacency) - 1) :
        ~(adjacency[0][c] = adjacency[1][d] /\ adjacency[1][c] = adjacency[0][d])

\* a column (B, A) for every column (A, B)
BothDirections(adjacency) ==
    \A c \in 0..(Shape1(adjacency) - 1) :
        \E d \in 0..(Shape1(adjacency) - 1) :
            adjacency[0][d] = adjacency[1][c] /\ adjacency[1][d] = adjacency[0][c]

(* C6 as stated: each unordered pair {A, B} of adjacent elements is stored *)
(* exactly once: vertex_adjacency (resp. edge_adjacency) never holds both  *)
(* a column for (A, B) and a column for (B, A), and never two columns for  *)
(* the same ordered pair.                                                  *)
C6_StoredOncePerUnorderedPair ==
    Built =>
        /\ OncePerOrderedPair(vertex_adjacency)
        /\ OncePerOrderedPair(edge_adjacency)
        /\ OnlyOneDirection(vertex_adjacency)
        /\ OnlyOneDirection(edge_adjacency)

(* C6 as amended: each ordered pair (A, B) of adjacent elements is stored  *)
(* exactly once, so an unordered pair {A, B} is stored twice, as (A, B)    *)
(* and as (B, A): vertex_adjacency (resp. edge_adjacency) never holds two  *)
(* columns for the same ordered pair, and holds a column for (B, A)        *)
(* whenever it holds one for (A, B).                                       *)
C6_StoredOncePerOrderedPair ==
    Built =>
        /\ OncePerOrderedPair(vertex_adjacency)
        /\ OncePerOrderedPair(edge_adjacency)
        /\ BothDirections(vertex_adjacency)
        /\ BothDirections(edge_adjacency)

\* a built mesh with columns in both adjacency arrays
C6_Witness ==
    /\ Built
    /\ Shape1(vertex_adjacency) >= 2
    /\ Shape1(edge_adjacency) >= 4

----------------------------------------------------------------------------
(* C7: after construction edge_on_boundary[e] is true iff exactly one      *)
(* element references edge e in its local edge table                       *)
(* (len(edge_neighbors[e]) = 1), and vertex_on_boundary[v] is true iff v   *)
(* is an endpoint of at least one edge flagged as boundary.                *)
C7_BoundaryFlags ==
    Built =>
        /\ \A k \in EdgeIndices :
              /\ edge_on_boundary[k] <=> Cardinality(Occurrences(k)) = 1
              /\ edge_on_boundary[k] <=> Len(edge_neighbors[k]) = 1
        /\ DOMAIN vertex_on_boundary = 0..(NumberOfVertices - 1)
        /\ \A v \in 0..(NumberOfVertices - 1) :
              vertex_on_boundary[v] <=>
                  \E k \in EdgeIndices :
                      edge_on_boundary[k] /\ v \in {edges[0][k], edges[1][k]}

\* a built mesh with a boundary edge, an edge between two elements and a
\* vertex that is on an edge but not on the boundary
C7_Witness ==
    /\ Built
    /\ \E k \in EdgeIndices : edge_on_boundary[k]
    /\ \E k \in EdgeIndices : Len(edge_neighbors[k]) = 2
    /\ \E v \in 0..(NumberOfVertices - 1) :
          /\ ~vertex_on_boundary[v]
          /\ \E k \in EdgeIndices : v \in {edges[0][k], edges[1][k]}

(* C8: for every element i, element_neighbors[i] is exactly the set of the *)
(* elements j # i that share at least one vertex with i; i is never in its *)
(* own set, and j is in element_neighbors[i] iff i is in                   *)
(* element_neighbors[j].                                                   *)
C8_ElementNeighbors ==
    Built =>
        /\ DOMAIN element_neighbors = ElementIndices
        /\ \A i \in ElementIndices :
              /\ element_neighbors[i] =
                     {j \in ElementIndices : j # i /\ SharedVertices(i, j) >= 1}
              /\ i \notin element_neighbors[i]
              /\ \A j \in ElementIndices :
                     j \in element_neighbors[i] <=> i \in element_neighbors[j]

\* a built mesh with an element that has a neighbor by an edge, a neighbor
\* by a single vertex, and with two elements that are no neighbors
C8_Witness ==
    /\ Built
    /\ \E i, j, h \in ElementIndices :
          /\ {j, h} \subseteq element_neighbors[i]
          /\ SharedVertices(i, j) = 2
          /\ SharedVertices(i, h) = 1

\* a built mesh of two elements without a common vertex
C8_WitnessApart ==
    /\ Built
    /\ NumberOfElements = 2
    /\ element_neighbors[0] = {}

\* the elements of the occurrences of edge k, in the order of the scan
OccurrenceElements(k) ==
    LET occ == SelectSeq([p \in 1..(3 * NumberOfElements) |-> p - 1],
                         LAMBDA p : p \in Occurrences(k))
    IN [n \in 1..Len(occ) |-> occ[n] \div 3]

(* C9: for every global edge e, edge_neighbors[e] lists all the (element,  *)
(* local edge) occurrences whose element_edges entry is e, by their        *)
(* element, in the order of the element traversal; an edge of more than    *)
(* two elements keeps all its occurrences and construction does not fail.  *)
C9_EdgeNeighbors ==
    Built =>
        /\ DOMAIN edge_neighbors = EdgeIndices
        /\ \A k \in EdgeIndices : edge_neighbors[k] = OccurrenceElements(k)

\* a mesh with three elements around one edge is built, and the edge has
\* its three neighbors
C9_Witness ==
    /\ Built
    /\ \E k \in EdgeIndices :
          /\ Cardinality(Occurrences(k)) = 3
          /\ edge_neighbors[k] = <<0, 1, 2>>

\* every canonical pair of the elements is the pair of exactly two
\* (element, local edge) occurrences
ClosedManifold ==
    /\ ValidElements
    /\ \A p \in ScanPositions :
          Cardinality({q \in ScanPositions : ScanPair(q) = ScanPair(p)}) = 2

\* the four triangles on four vertices
TetrahedronSurface ==
    /\ ValidElements
    /\ NumberOfVertices = 4
    /\ NumberOfElements = 4
    /\ Cardinality({VertexSet(e) : e \in ElementIndices}) = 4

(* C10: for a closed manifold mesh no edge and no vertex is flagged as     *)
(* boundary and every edge_neighbors list has length exactly 2; the        *)
(* surface of a tetrahedron (4 triangles on 4 vertices) is such a mesh and *)
(* has exactly 6 edges.                                                    *)
C10_ClosedMeshHasNoBoundary ==
    /\ (Built /\ ClosedManifold) =>
          /\ \A k \in EdgeIndices : ~edge_on_boundary[k]
          /\ \A v \in 0..(NumberOfVertices - 1) : ~vertex_on_boundary[v]
          /\ \A k \in EdgeIndices : Len(edge_neighbors[k]) = 2
    /\ (Built /\ TetrahedronSurface) =>
          /\ ClosedManifold
          /\ NumberOfEdges = 6

\* the surface of a tetrahedron, built
C10_Witness == Built /\ TetrahedronSurface

----------------------------------------------------------------------------
\* refine() was called on the built grid
Refined == pc = "done" /\ refined # None

\* element child of the refined grid lies in element parent of the grid:
\* its corners are corners of the parent or the new vertices of its edges
ChildOf(child, parent) ==
    {refined.value.elements[k][child] : k \in 0..2}
        \subseteq (VertexSet(parent)
                   \cup {NumberOfVertices + element_edges[l][parent] : l \in 0..2})

(* C11: refine() on a mesh with M elements, E edges and V vertices returns *)
(* a mesh with exactly 4M elements and V + E vertices; the children of     *)
(* parent i are the elements 4i..4i+3, and the domain index of each child  *)
(* is the domain index of parent i.                                        *)
C11_RefineCountsAndDomains ==
    Refined =>
        /\ ~refined.raised
        /\ Shape1(refined.value.elements) = 4 * NumberOfElements
        /\ Shape1(refined.value.vertices) = NumberOfVertices + NumberOfEdges
        /\ DOMAIN refined.value.domain_indices = 0..(4 * NumberOfElements - 1)
        /\ \A i \in ElementIndices : \A c \in 0..3 :
              /\ ChildOf(4 * i + c, i)
              /\ refined.value.domain_indices[4 * i + c] = domain_indices[i]

\* a refined mesh of three elements with three different domain indices
C11_Witness ==
    /\ Refined
    /\ ~refined.raised
    /\ NumberOfElements = 3
    /\ Cardinality({domain_indices[i] : i \in ElementIndices}) = 3
    /\ refined.value.domain_indices[4] # refined.value.domain_indices[8]

\* vertex m of the refined grid is the midpoint of the vertices a and b of
\* the grid
IsMidpoint(m, a, b) ==
    \A d \in 0..2 :
        2 * refined.value.vertices[d][m] = vertices[d][a] + vertices[d][b]

\* column c of the elements of the refined grid is the triple
IsChild(c, triple) ==
    \A k \in 0..2 : refined.value.elements[k][c] = triple[k + 1]

(* C12: in refine() the old vertices keep their indices, new vertex V + k  *)
(* is the midpoint of old edge k, and the four children of a parent        *)
(* (v0, v1, v2) are (v0, mid01, mid20), (mid01, v1, mid12),                *)
(* (mid12, v2, mid20), (mid01, mid12, mid20), where mid01, mid20, mid12    *)
(* are the new vertices V + element_edges[0], V + element_edges[1],        *)
(* V + element_edges[2], the midpoints of {v0, v1}, {v2, v0}, {v1, v2}.    *)
C12_RefineChildrenAndMidpoints ==
    (Refined /\ ~refined.raised) =>
        /\ \A v \in 0..(NumberOfVertices - 1) : \A d \in 0..2 :
              refined.value.vertices[d][v] = vertices[d][v]
        /\ \A k \in EdgeIndices :
              IsMidpoint(NumberOfVertices + k, edges[0][k], edges[1][k])
        /\ \A i \in ElementIndices :
              LET v0 == elements[0][i]
                  v1 == elements[1][i]
                  v2 == elements[2][i]
                  mid01 == NumberOfVertices + element_edges[0][i]
                  mid20 == NumberOfVertices + element_edges[1][i]
                  mid12 == NumberOfVertices + element_edges[2][i]
              IN /\ IsChild(4 * i, <<v0, mid01, mid20>>)
                 /\ IsChild(4 * i + 1, <<mid01, v1, mid12>>)
                 /\ IsChild(4 * i + 2, <<mid12, v2, mid20>>)
                 /\ IsChild(4 * i + 3, <<mid01, mid12, mid20>>)
                 /\ IsMidpoint(mid01, v0, v1)
                 /\ IsMidpoint(mid20, v2, v0)
                 /\ IsMidpoint(mid12, v1, v2)

\* a refined mesh with an element whose local edge 1 was first met in an
\* earlier element and got a smaller index than its local edge 0
C12_Witness ==
    /\ Refined
    /\ ~refined.raised
    /\ \E i \in ElementIndices :
          /\ i > 0
          /\ element_edges[1][i] < element_edges[0][i]
          /\ \E l \in 0..2 : element_edges[1][i] = element_edges[l][i - 1]

----------------------------------------------------------------------------
(* Construction of grids that are not valid.                               *)

\* element e of elems has a repeated vertex index: one of its local edges
\* has the canonical key (v, v)
DegenerateElement(elems, e) ==
    \E k1, k2 \in 0..2 : k1 < k2 /\ elems[k1][e] = elems[k2][e]

HasDegenerateElement(elems) ==
    \E e \in 0..(Shape1(elems) - 1) : DegenerateElement(elems, e)

\* some element of elems refers to a vertex that verts does not have
HasIndexOutOfRange(verts, elems) ==
    \E e \in 0..(Shape1(elems) - 1) : \E k \in 0..2 :
        elems[k][e] >= Shape1(verts)

NothingVisible ==
    /\ refined = None
    /\ result = None
    /\ \A name \in DOMAIN iterators : iterators[name] = None
    /\ device_interfaces = EmptyDict
    /\ interfaces_created = 0
    /\ \A t \in DOMAIN calls : calls[t] = NoCall

(* C14: whenever some element of the elements argument refers to a vertex  *)
(* index >= V, Grid.__init__ gets no further than the call of csr_matrix   *)
(* in get_vertex_to_element_matrix and ends there with a ValueError; the   *)
(* fields after the edges are never set, and no operation of the caller    *)
(* ever acts on the object.                                                *)
C14_IndexOutOfRangeFails ==
    HasIndexOutOfRange(arg_vertices, arg_elements) =>
        /\ pc \in {"start", "normalized", "edges_enumerated", "failed"}
        /\ pc = "failed" <=> error = "ValueError"
        /\ adjVars = <<None, None, None>>
        /\ geomVars = <<None, None, None>>
        /\ bndVars = <<None, None>>
        /\ edge_neighbors = None
        /\ NothingVisible

\* an element without a repeated vertex and with the index V has ended
\* the construction in csr_matrix, after the edges were enumerated
C14_Witness ==
    /\ pc = "failed"
    /\ error = "ValueError"
    /\ HasIndexOutOfRange(arg_vertices, arg_elements)
    /\ ~HasDegenerateElement(arg_elements)
    /\ edges # None
    /\ edge_adjacency = None

----------------------------------------------------------------------------
(* The cache of device interfaces.                                         *)

\* the calls of push_to_device that have returned, for the same key,
\* returned the same interface
SameKeySameInterface ==
    \A t1, t2 \in DOMAIN calls :
        (/\ calls[t1].pc = "returned"
         /\ calls[t2].pc = "returned"
         /\ calls[t1].key = calls[t2].key) => calls[t1].value = calls[t2].value

\* a step keeps every entry that device_interfaces holds
EntriesKept ==
    \A key \in DOMAIN device_interfaces :
        /\ key \in DOMAIN device_interfaces'
        /\ device_interfaces'[key] = device_interfaces[key]

(* C15: under every interleaving of push_to_device calls on one grid, an   *)
(* entry of device_interfaces is never replaced once it is there, and the  *)
(* calls with the same (context, precision) key return the same interface. *)
C15_FirstInsertWins == [][EntriesKept /\ SameKeySameInterface']_vars

\* two threads hold different interfaces for the same key, and the cache
\* holds the one inserted last
C15_TwoInterfacesForOneKey ==
    \E t1, t2 \in DOMAIN calls :
        /\ calls[t1].pc = "returned"
        /\ calls[t2].pc = "returned"
        /\ calls[t1].key = calls[t2].key
        /\ calls[t1].value # calls[t2].value
        /\ device_interfaces[calls[t1].key] = calls[t2].value
        /\ calls[t1].interface < calls[t2].interface

----------------------------------------------------------------------------
(* Entity counts and iterators.                                            *)

\* the number of entities of a valid codim, read from the arrays
CountOfCodim(codim) ==
    CASE codim = 0 -> NumberOfElements
      [] codim = 1 -> NumberOfEdges
      [] codim = 2 -> NumberOfVertices

KindOfCodim(codim) ==
    CASE codim = 0 -> "Element"
      [] codim = 1 -> "Edge"
      [] codim = 2 -> "Vertex"

\* what the caller got from a generator so far is the handles of the kind
\* of its codim with the indices 0, 1, ... in that order, never more than
\* there are entities, and all of them once the generator has ended
InOrder(gen) ==
    /\ gen.codim \in {0, 1, 2}
    /\ Len(gen.yielded) <= CountOfCodim(gen.codim)
    /\ gen.stopped => Len(gen.yielded) = CountOfCodim(gen.codim)
    /\ \A n \in 1..Len(gen.yielded) :
          /\ gen.yielded[n].kind = KindOfCodim(gen.codim)
          /\ gen.yielded[n].grid = "self"
          /\ gen.yielded[n].index = n - 1

(* C16: every generator got from entity_iterator(codim), codim in 0..2,    *)
(* yields the handles of that codim with the indices 0, 1, ..., count - 1  *)
(* in that order, count = entity_count(codim), and then ends, whatever the *)
(* caller does with other generators in between; entity_count and          *)
(* entity_iterator raise for every other codim, and only then.             *)
C16_EntityIterators ==
    Built =>
        /\ \A name \in DOMAIN iterators :
              iterators[name] # None => InOrder(iterators[name])
        /\ (result # None /\ result.op \in {"entity_count", "entity_iterator"}) =>
              /\ result.raised <=> result.args[1] \notin {0, 1, 2}
              /\ (result.op = "entity_count" /\ ~result.raised) =>
                    result.value = CountOfCodim(result.args[1])

\* two generators of the same codim, taken in turns: one has ended after
\* all the edges, the other has yielded one edge so far
C16_Witness ==
    /\ Built
    /\ iterators["first"] # None
    /\ iterators["second"] # None
    /\ iterators["first"].codim = 1
    /\ iterators["second"].codim = 1
    /\ iterators["first"].stopped
    /\ Len(iterators["first"].yielded) = NumberOfEdges
    /\ ~iterators["second"].stopped
    /\ Len(iterators["second"].yielded) = 1
    /\ NumberOfEdges > 3
    /\ result # None
    /\ result.op = "entity_iterator"
    /\ result.raised

----------------------------------------------------------------------------
(* The flattened array.                                                    *)

\* the caller holds the value of as_array
HasArray == Built /\ result # None /\ result.op = "as_array"

(* C17: as_array has exactly 9 * M entries, and its entry 9 * e + 3 * k + d *)
(* is vertices[d, elements[k, e]] for every element e, corner k and axis   *)
(* d: the elements in index order, the corners of an element in local      *)
(* order, and x, y, z within a corner.                                     *)
C17_AsArrayLayout ==
    HasArray =>
        /\ DOMAIN result.value = 0..(9 * NumberOfElements - 1)
        /\ \A e \in ElementIndices : \A k \in 0..2 : \A d \in 0..2 :
              result.value[9 * e + 3 * k + d] = vertices[d][elements[k][e]]

\* the array of a grid of several elements whose corners are not numbered
\* in the order of the vertices
C17_Witness ==
    /\ HasArray
    /\ NumberOfElements >= 3
    /\ elements[0][0] > elements[1][0]
    /\ elements[0][1] # elements[0][0]
    /\ result.value[9] # result.value[0]

----------------------------------------------------------------------------
(* Equality of handles.                                                    *)

\* two handles refer to the same entity: same grid object, same index
SameEntity(h1, h2) == h1.grid = h2.grid /\ h1.index = h2.index

(* C18: two handles of the same kind (Element, Edge or Vertex) that the    *)
(* caller holds compare equal with == if and only if they refer to the     *)
(* same grid and the same index.                                           *)
C18_HandlesEqualByGridAndIndex ==
    Built =>
        \A h1, h2 \in HeldHandles :
            h1.kind = h2.kind => (HandleEq(h1, h2) <=> SameEntity(h1, h2))

\* the caller holds the Edge handles of index 0 of two entity_iterator(1)
\* calls on the grid, and they compare unequal
C18_EqualEdgesCompareUnequal ==
    /\ Built
    /\ \E h1, h2 \in HeldHandles :
          /\ h1.kind = "Edge" /\ h2.kind = "Edge"
          /\ h1.id[1] = "first" /\ h2.id[1] = "second"
          /\ h1.index = 0 /\ h2.index = 0
          /\ SameEntity(h1, h2)
          /\ ~HandleEq(h1, h2)
          /\ HandleEq(h1, h1)

----------------------------------------------------------------------------
(* Round trip through the flattened array.  Lengths and areas are compared *)
(* by their squares, which are integers here: the length of an edge is the *)
(* norm of the difference of its two vertices, the area of an element is   *)
(* half the norm of its normal direction.                                  *)

NormSquared(a) == a[0] * a[0] + a[1] * a[1] + a[2] * a[2]

\* the squared length of edge k of a grid
EdgeLengthSquared(grid, k) ==
    NormSquared([d \in 0..2 |-> grid.vertices[d][grid.edges[0][k]]
                                - grid.vertices[d][grid.edges[1][k]]])

EdgeLengths(grid) ==
    {EdgeLengthSquared(grid, k) : k \in 0..(Shape1(grid.edges) - 1)}

BoundaryEdgeLengths(grid) ==
    {EdgeLengthSquared(grid, k) :
        k \in {i \in 0..(Shape1(grid.edges) - 1) : grid.edge_on_boundary[i]}}

\* four times the squared areas of the elements of a grid
ElementAreas(grid) ==
    {NormSquared(grid.normal_directions[e]) :
        e \in 0..(Shape1(grid.elements) - 1)}

\* the vertices read from a flattened array: every group of three values
\* is a vertex of its own, vertex 3 * e + k being corner k of group e
RebuiltVertices(array) ==
    [d \in 0..2 |-> [v \in 0..((Len0(array) \div 3) - 1) |-> array[3 * v + d]]]

\* the elements read from a flattened array: one triangle per group of
\* nine values, on the vertices 3 * e, 3 * e + 1, 3 * e + 2
RebuiltElements(array) ==
    [k \in 0..2 |-> [e \in 0..((Len0(array) \div 9) - 1) |-> 3 * e + k]]

\* the grid constructed from a flattened array
Rebuilt(array) == GridInit(RebuiltVertices(array), RebuiltElements(array), None)

\* the round trip as claimed: the same boundary-edge lengths, the same areas
RoundTripAsClaimed(original, rebuilt) ==
    /\ ~rebuilt.raised
    /\ BoundaryEdgeLengths(rebuilt.value) = BoundaryEdgeLengths(original)
    /\ ElementAreas(rebuilt.value) = ElementAreas(original)

\* the round trip as it is: the triangles of the rebuilt grid share no
\* vertex, so each of its edges is on the boundary, and the lengths of its
\* boundary edges are the lengths of all the edges of the original
RoundTrip(original, rebuilt) ==
    /\ ~rebuilt.raised
    /\ Shape1(rebuilt.value.elements) = Shape1(original.elements)
    /\ Shape1(rebuilt.value.edges) = 3 * Shape1(original.elements)
    /\ \A k \in 0..(Shape1(rebuilt.value.edges) - 1) :
          rebuilt.value.edge_on_boundary[k]
    /\ BoundaryEdgeLengths(rebuilt.value) = EdgeLengths(original)
    /\ BoundaryEdgeLengths(original) \subseteq BoundaryEdgeLengths(rebuilt.value)
    /\ ElementAreas(rebuilt.value) = ElementAreas(original)

(* C19 as stated: the grid built from the as_array output of a grid, every *)
(* group of nine values taken as a triangle on three vertices of its own,  *)
(* has the same set of boundary-edge lengths and the same set of element   *)
(* areas as the original grid.                                             *)
C19_RoundTripSameBoundaryLengths ==
    HasArray => RoundTripAsClaimed(GridFields("self"), Rebuilt(result.value))

(* C19, amended: the grid built from the as_array output has the same set  *)
(* of element areas as the original; all its edges are boundary edges, and *)
(* the set of their lengths is the set of the lengths of all the edges of  *)
(* the original, which contains the lengths of the original's boundary     *)
(* edges.                                                                  *)
C19_RoundTripAllEdgeLengths ==
    HasArray => RoundTrip(GridFields("self"), Rebuilt(result.value))

\* the array of a grid with inner and boundary edges, where an inner edge
\* has a length no boundary edge has
C19_Witness ==
    /\ HasArray
    /\ \E k \in EdgeIndices : edge_on_boundary[k]
    /\ \E k \in EdgeIndices :
          /\ ~edge_on_boundary[k]
          /\ EdgeLengthSquared(GridFields("self"), k)
                \notin BoundaryEdgeLengths(GridFields("self"))

----------------------------------------------------------------------------
(* What the public operations leave alone.                                 *)

\* the data of the built grid: all its fields but the cache of device
\* interfaces
meshVars == <<dataVars, edgeVars, adjVars, geomVars, bndVars, edge_neighbors>>

(* C20: once the grid is constructed, no step of entity_count,             *)
(* entity_iterator, get_element, as_array, bounding_box, refine or         *)
(* push_to_device changes its vertices, elements, domain indices, edges,   *)
(* element_edges, adjacency, neighbor, geometry or boundary data; a step   *)
(* of refine sets only the caller's new grid, which is a Grid of its own   *)
(* with an empty cache, and a step of push_to_device changes nothing of    *)
(* the grid but device_interfaces.                                         *)
C20_BuiltGridIsNotChanged ==
    [][Built =>
         /\ UNCHANGED <<pc, error, inputVars, meshVars>>
         /\ refined' # refined =>
               /\ ~refined'.raised
               /\ refined'.value.device_interfaces = EmptyDict
               /\ refined'.value.vertices # vertices'
               /\ UNCHANGED <<deviceVars, result, iterators>>
         /\ deviceVars' # deviceVars => UNCHANGED callerVars
         /\ device_interfaces' # device_interfaces =>
               \E t \in DOMAIN calls : calls[t].pc = "insert"]_vars

\* the caller has refined the grid, pushed it to a device, used up a
\* generator and asked for the array
C20_Witness ==
    /\ Built
    /\ refined # None
    /\ device_interfaces # EmptyDict
    /\ iterators["first"] # None
    /\ iterators["first"].stopped
    /\ result # None
    /\ result.op = "as_array"

----------------------------------------------------------------------------
(* Pairs that the vertex count takes for edge-adjacent.                    *)

\* the entry (a, b) of the element-to-element matrix of elems: the number
\* of pairs of corners of a and b with the same vertex index
SharedCornerPairs(elems, a, b) ==
    Cardinality({kk \in (0..2) \X (0..2) : elems[kk[1]][a] = elems[kk[2]][b]})

\* the vertex indices that a and b have in common
CommonVertices(elems, a, b) ==
    {elems[k][a] : k \in 0..2} \cap {elems[k][b] : k \in 0..2}

\* the count says edge-adjacent, but a and b have fewer than two vertex
\* indices in common
Misclassified(elems, a, b) ==
    /\ SharedCornerPairs(elems, a, b) = 2
    /\ Cardinality(CommonVertices(elems, a, b)) < 2

HasMisclassifiedPair(elems) ==
    \E a, b \in 0..(Shape1(elems) - 1) : Misclassified(elems, a, b)

\* the corners of a whose vertex is a vertex of b
MatchingCorners(elems, a, b) ==
    {k \in 0..2 : elems[k][a] \in {elems[j][b] : j \in 0..2}}

\* a has no corner matching b behind its first matching corner
NoSecondMatch(elems, a, b) ==
    \A k1, k2 \in MatchingCorners(elems, a, b) : k1 = k2

(* C21: whenever the elements argument has a pair (A, B) with shared-vertex *)
(* count 2 but fewer than two vertex indices in common, Grid.__init__ gets *)
(* no further than _find_edge_adjacency and ends with a ValueError, with   *)
(* no edge_adjacency array set; and for every pair (A, B) the search for   *)
(* the two correspondences raises exactly when A has no matching corner    *)
(* behind its first one.                                                   *)
C21_MisclassifiedPairFails ==
    /\ HasMisclassifiedPair(arg_elements) =>
          /\ pc \in {"start", "normalized", "edges_enumerated", "failed"}
          /\ pc = "failed" <=> error = "ValueError"
          /\ edge_adjacency = None
    /\ pc # "start" =>
          \A a, b \in 0..(Shape1(elements) - 1) :
              GetSharedEdgeInformationForTwoElements(elements, a, b).raised
                  <=> NoSecondMatch(elements, a, b)

\* all indices are in range, an element with a repeated vertex meets
\* another one in that vertex only, and the construction has ended in the
\* search for the second correspondence
C21_Witness ==
    /\ pc = "failed"
    /\ error = "ValueError"
    /\ ~HasIndexOutOfRange(arg_vertices, arg_elements)
    /\ \E a, b \in 0..(Shape1(elements) - 1) :
          /\ Misclassified(elements, a, b)
          /\ ~GetSharedEdgeInformationForTwoElements(elements, a, b).raised
          /\ GetSharedEdgeInformationForTwoElements(elements, b, a).raised

----------------------------------------------------------------------------
(* Edges of the refined grid.                                              *)

\* the elements of a grid that have both the vertices a and b
ElementsWith(grid, a, b) ==
    {e \in 0..(Shape1(grid.elements) - 1) :
        {a, b} \subseteq {grid.elements[k][e] : k \in 0..2}}

\* the edges of a grid between the vertices a and b
EdgesBetween(grid, a, b) ==
    {k \in 0..(Shape1(grid.edges) - 1) :
        {grid.edges[0][k], grid.edges[1][k]} = {a, b}}

NumberOfBoundaryEdges(grid) ==
    Cardinality({k \in 0..(Shape1(grid.edges) - 1) : grid.edge_on_boundary[k]})

\* the number of different vertex sets among the elements of a grid; it is
\* the number of elements unless two elements have the same three vertices
NumberOfTriangles(grid) ==
    Cardinality({{grid.elements[k][e] : k \in 0..2} :
                    e \in 0..(Shape1(grid.elements) - 1)})

\* old edge k, with n incident elements, has become the two edges from its
\* ends to its midpoint (vertex V + k), each with n incident elements
SplitInTwo(grid, fine, k) ==
    LET mid == Shape1(grid.vertices) + k
        n == Cardinality(ElementsWith(grid, grid.edges[0][k], grid.edges[1][k]))
    IN \A end \in {grid.edges[0][k], grid.edges[1][k]} :
          /\ Cardinality(EdgesBetween(fine, end, mid)) = 1
          /\ Cardinality(ElementsWith(fine, end, mid)) = n
          /\ \A half \in EdgesBetween(fine, end, mid) :
                /\ Len(fine.edge_neighbors[half]) = n
                /\ fine.edge_on_boundary[half] = grid.edge_on_boundary[k]

\* what holds of the edges of the refined grid whatever the grid
RefinedEdges(grid, fine) ==
    /\ \A k \in 0..(Shape1(grid.edges) - 1) : SplitInTwo(grid, fine, k)
    /\ NumberOfBoundaryEdges(fine) = 2 * NumberOfBoundaryEdges(grid)
    /\ NumberOfBoundaryEdges(grid) = 0 => NumberOfBoundaryEdges(fine) = 0

(* C22 as stated: the grid refine() returns for a grid with M elements and *)
(* E edges has exactly 2E + 3M edges, every old edge with n incident       *)
(* elements has become two edges with n incident elements each, and the    *)
(* refined grid has twice as many boundary edges as the grid.              *)
C22_RefinedEdgeCount ==
    Refined =>
        /\ ~refined.raised
        /\ Shape1(refined.value.edges) = 2 * NumberOfEdges + 3 * NumberOfElements
        /\ RefinedEdges(GridFields("self"), refined.value)

(* C22, amended: the grid refine() returns for a grid with E edges and T   *)
(* different element vertex sets has exactly 2E + 3T edges (T = M unless   *)
(* two elements have the same three vertices: the three inner edges of     *)
(* their refinements are then the same edges); every old edge with n       *)
(* incident elements has become two edges with n incident elements each,   *)
(* and the refined grid has twice as many boundary edges as the grid.      *)
C22_RefinedEdgeCountByTriangles ==
    Refined =>
        /\ ~refined.raised
        /\ Shape1(refined.value.edges)
              = 2 * NumberOfEdges + 3 * NumberOfTriangles(GridFields("self"))
        /\ NumberOfTriangles(GridFields("self")) = NumberOfElements =>
              Shape1(refined.value.edges)
                  = 2 * NumberOfEdges + 3 * NumberOfElements
        /\ RefinedEdges(GridFields("self"), refined.value)

\* the refinement of a grid with boundary edges, an edge with two and an
\* edge with three incident elements
C22_Witness ==
    /\ Refined
    /\ NumberOfBoundaryEdges(GridFields("self")) > 0
    /\ \E k \in EdgeIndices : Len(edge_neighbors[k]) = 3
    /\ Shape1(refined.value.edges) = 2 * NumberOfEdges + 3 * NumberOfElements

\* the refinement of two elements with the same three vertices: 9 edges,
\* where 2E + 3M is 12
C22_WitnessSameVertices ==
    /\ Refined
    /\ NumberOfElements = 2
    /\ NumberOfTriangles(GridFields("self")) = 1
    /\ Shape1(refined.value.edges) = 9

====
